---------------------------- MODULE Spec2Model ----------------------------
(***************************************************************************)
(* Model of the mesh path planner of verlab/terrain_aware_exploration:     *)
(*   - MeshGraphSearch (graph_search.py): the edge-weight functions and    *)
(*     the multi-source Dijkstra search with predecessor context;          *)
(*   - MeshPlannerBase.prepare_graph (mesh_planner_base_open3d.py): the    *)
(*     graph preparation pipeline.                                         *)
(*                                                                         *)
(* Arithmetic is fixed point over the integers:                            *)
(*   lengths      in 1/LenScale of a metre (floor of the square root),     *)
(*   angles       in whole degrees,                                        *)
(*   energies     in whole units of the energy formula (floor),            *)
(*   normalised   sub-metrics in 1/NormScale,                              *)
(*   COMBINED     weights in 1/(4*NormScale).                              *)
(***************************************************************************)
EXTENDS Integers, Sequences, FiniteSets, TLC

(***************************************************************************)
(* Bounds of the model.                                                    *)
(***************************************************************************)
MaxSources == 2      \* the source collection holds at most this many ids
CutoffValue == 300   \* the one finite cutoff the caller may pass
LenScale == 100      \* lengths are kept in 1/LenScale
NormScale == 1000    \* normalised sub-metrics are kept in 1/NormScale

\* Python's None, for an optional node id or number (ids and numbers are >= 0)
None == 0 - 1

\* the empty dict
EmptyMap == [x \in {} |-> 0]

\* f itself, tabulated: its values are computed once, not at every use
Table(f) == f @@ EmptyMap

(***************************************************************************)
(* The mesh fixture: per-vertex position (self.centroids).  Positions are *)
(* pairwise distinct, also in their (x, y) projection, and none is the     *)
(* origin, so that no angle is taken of a zero vector.  Vertices 0, 1, 2   *)
(* lie on a straight flat line (a move with no turn and no slope), 3 is    *)
(* raised beside 1: the routes 1-0-3 and 1-2-3 have equal length, and 0-2-1*)
(* is shorter than 0-3-1 although 3 is nearer to 0 than 2 is.              *)
(***************************************************************************)
centroids == << <<1, 1, 0>>, <<1, 2, 0>>, <<1, 3, 0>>, <<2, 2, 1>> >>

\* the vertex ids: range(len(self.centroids))
Nodes == 0 .. (Len(centroids) - 1)

\* self.centroids[v] for a vertex id v (Python lists are 0-based)
Pos(v) == centroids[v + 1]

(***************************************************************************)
(* Geometric primitives.                                                   *)
(***************************************************************************)
Sub(a, b) == << a[1] - b[1], a[2] - b[2], a[3] - b[3] >>
Dot(a, b) == a[1] * b[1] + a[2] * b[2] + a[3] * b[3]
XY(a) == << a[1], a[2], 0 >>
ZVector == << 0, 0, 0 - 1 >>

RECURSIVE SqrtBisect(_, _, _)
SqrtBisect(n, lo, hi) ==
  \* lo*lo <= n < hi*hi
  IF hi = lo + 1 THEN lo
  ELSE IF ((lo + hi) \div 2) * ((lo + hi) \div 2) <= n
       THEN SqrtBisect(n, (lo + hi) \div 2, hi)
       ELSE SqrtBisect(n, lo, (lo + hi) \div 2)

\* floor of the square root
ISqrt(n) == SqrtBisect(n, 0, n + 1)

\* np.linalg.norm(a), in 1/LenScale
Norm(a) == ISqrt(LenScale * LenScale * Dot(a, a))

\* 10^6 * cos^2(k degrees), k = 0 .. 90
Cos2Table ==
  << 1000000, 999695, 998782, 997261, 995134, 992404, 989074, 985148, 980631, 975528,
     969846, 963592, 956773, 949397, 941474, 933013, 924024, 914519, 904508, 894005,
     883022, 871572, 859670, 847329, 834565, 821394, 807831, 793893, 779596, 764960,
     750000, 734736, 719186, 703368, 687303, 671010, 654508, 637819, 620961, 603956,
     586824, 569587, 552264, 534878, 517450, 500000, 482550, 465122, 447736, 430413,
     413176, 396044, 379039, 362181, 345492, 328990, 312697, 296632, 280814, 265264,
     250000, 235040, 220404, 206107, 192169, 178606, 165435, 152671, 140330, 128428,
     116978, 105995, 95492, 85481, 75976, 66987, 58526, 50603, 43227, 36408,
     30154, 24472, 19369, 14852, 10926, 7596, 4866, 2739, 1218, 305, 0 >>

\* the angle is at least k degrees away from the axis: cos^2(angle) <= cos^2(k)
AtLeastDeg(k, dd, nn) == dd * 1000000 <= Cos2Table[k + 1] * nn

RECURSIVE DegBisect(_, _, _, _)
DegBisect(dd, nn, lo, hi) ==
  \* AtLeastDeg(lo) holds, AtLeastDeg(hi) does not
  IF hi = lo + 1 THEN lo
  ELSE IF AtLeastDeg((lo + hi) \div 2, dd, nn)
       THEN DegBisect(dd, nn, (lo + hi) \div 2, hi)
       ELSE DegBisect(dd, nn, lo, (lo + hi) \div 2)

\* the acute angle, in whole degrees, whose squared cosine is dd / nn
AcuteDeg(dd, nn) == IF AtLeastDeg(90, dd, nn) THEN 90 ELSE DegBisect(dd, nn, 0, 90)

\* arccos of d / sqrt(nn), in degrees, for a dot product d and the product nn
\* of the squared norms
ArcCosDeg(d, nn) == IF d >= 0 THEN AcuteDeg(d * d, nn) ELSE 180 - AcuteDeg(d * d, nn)

\* mesh_helper.angle_between_vectors(a, b): the angle between two vectors, in
\* degrees, in [0, 180]
angle_between_vectors(a, b) == ArcCosDeg(Dot(a, b), Dot(a, a) * Dot(b, b))

\* a faulty variant of the normalisation: linear, without the bounds
NormalizeLinear(x, lo, hi) ==
  IF hi = lo THEN 0
  ELSE ((x - lo) * NormScale) \div (hi - lo)

\* mesh_helper.normalize_from_minmax(x, lo, hi): min-max normalisation into
\* [0, 1], 0 when hi = lo; in 1/NormScale
normalize_from_minmax(x, lo, hi) ==
  IF hi = lo THEN 0
  ELSE IF x <= lo THEN 0
  ELSE IF x >= hi THEN NormScale
  ELSE ((x - lo) * NormScale) \div (hi - lo)


(***************************************************************************)
(* State.                                                                  *)
(*   G                  the graph handed to MeshGraphSearch: nodes, edges  *)
(*   normals            self.normals, by vertex id: an index of NormalVectors*)
(*   metric             self.metric                                        *)
(*   minmax             self.min_dist .. self.max_rotation                 *)
(*   path, path_distance   self.path, self.path_distance (<<>>, None       *)
(*                      before the first successful search)                *)
(*   pc                 where the call of dijkstra_search is               *)
(*   sources, target, cutoff   its arguments                               *)
(*   dist, seen, paths, pred, fringe, c   the locals of the search         *)
(*   result             what the call returned, or the error it raised     *)
(*   popLog             history: the (node, distance) finalized, in order  *)
(*   pushLog            history: the fringe entries pushed, in order       *)
(* and of a call of MeshPlannerBase.prepare_graph, which works on G too:   *)
(*   stage              where the call of prepare_graph is                 *)
(*   source_id, target_id   its arguments (target_id may be None)          *)
(*   adjacency          self.mesh.adjacency_list, by vertex id             *)
(*   mesh_frontiers     self.mesh_frontiers: "set" as the constructor      *)
(*                      leaves it, "list" once extract_frontiers_from_mesh *)
(*                      has reassigned it                                  *)
(*   raised             the error prepare_graph raised and the method that *)
(*                      raised it                                          *)
(* of the end of prepare_graph, from the clustering of the frontiers on:   *)
(*   filtered_reachable_f_ids   the reachable frontiers that are nodes of G*)
(*   f_visit_ids, f_centroids_ids   what the caller of prepare_graph       *)
(*                      receives under these names                         *)
(* of MeshPlannerBase.run:                                                 *)
(*   graph_metrics_types   self.graph_metrics_types                        *)
(*   is_multithread     the flag of run                                    *)
(*   processes          by position in graph_metrics_types, where the      *)
(*                      run_graph_process of that metric is                *)
(*   return_dict        the metrics that have an entry in return_dict      *)
(*   run_pc             where the call of run is                           *)
(*   run_result         what run returned (the metrics of world_path_dict) *)
(*                      or the error it raised                             *)
(* of the construction of a MeshGraphSearch with pose-estimator plugins:   *)
(*   pybullet_angle_client, optimization_angle_client   TRUE when the      *)
(*                      client is given, FALSE when it is None             *)
(*   plugin_pc          where construction and first weight evaluation are *)
(*   plugin_error       the error they raised                              *)
(* and of prepare_mesh and create_graph_from_mesh:                         *)
(*   verts              self.mesh.vertices: the position of each vertex    *)
(*                      record, three records per triangle                 *)
(*   point_to_id        self.point_to_id                                   *)
(*   faces              self.faces                                         *)
(*   mesh_pc            where the construction of the mesh graph is        *)
(*   checked_nodes      the checked nodes of reconnect_non_removable_nodes *)
(*   borderless_g_dict  the nodes of G by their index in the k-d tree      *)
(*   nearest_checked_nodes   the frontier set it returns                   *)
(***************************************************************************)
VARIABLES G, normals, metric, minmax, path, path_distance,
          pc, sources, target, cutoff, dist, seen, paths, pred, fringe, c,
          result, popLog, pushLog,
          stage, source_id, target_id, adjacency, mesh_frontiers, raised,
          filtered_reachable_f_ids, f_visit_ids, f_centroids_ids,
          graph_metrics_types, is_multithread, processes, return_dict, run_pc,
          run_result,
          pybullet_angle_client, optimization_angle_client, plugin_pc, plugin_error,
          verts, point_to_id, faces, mesh_pc,
          checked_nodes, borderless_g_dict, nearest_checked_nodes

searchVars == << pc, sources, target, cutoff, dist, seen, paths, pred, fringe, c,
                 result, popLog, pushLog >>
objectVars == << G, normals, metric, minmax, path, path_distance >>
prepareVars == << stage, source_id, target_id, adjacency, mesh_frontiers, raised >>
frontierVars == << filtered_reachable_f_ids, f_visit_ids, f_centroids_ids >>
runVars == << graph_metrics_types, is_multithread, processes, return_dict, run_pc,
              run_result >>
pluginVars == << pybullet_angle_client, optimization_angle_client, plugin_pc,
                 plugin_error >>
meshVars == << verts, point_to_id, faces, mesh_pc >>
reconnectVars == << checked_nodes, borderless_g_dict, nearest_checked_nodes >>
unitVars == << frontierVars, runVars, pluginVars, meshVars, reconnectVars >>
vars == << G, normals, metric, minmax, path, path_distance,
           pc, sources, target, cutoff, dist, seen, paths, pred, fringe, c,
           result, popLog, pushLog,
           stage, source_id, target_id, adjacency, mesh_frontiers, raised,
           filtered_reachable_f_ids, f_visit_ids, f_centroids_ids,
           graph_metrics_types, is_multithread, processes, return_dict, run_pc,
           run_result,
           pybullet_angle_client, optimization_angle_client, plugin_pc, plugin_error,
           verts, point_to_id, faces, mesh_pc,
           checked_nodes, borderless_g_dict, nearest_checked_nodes >>

\* d[k] = v
Put(d, k, v) == [x \in (DOMAIN d) \cup {k} |-> IF x = k THEN v ELSE d[x]]

RECURSIVE SortedSeq(_)
\* the elements of a set of numbers, ascending
SortedSeq(S) ==
  IF S = {} THEN <<>>
  ELSE << CHOOSE x \in S : \A y \in S : x <= y >>
       \o SortedSeq(S \ { CHOOSE x \in S : \A y \in S : x <= y })

SeqToSet(s) == { s[i] : i \in 1 .. Len(s) }

(***************************************************************************)
(* Graph accessors (networkx).                                             *)
(***************************************************************************)
\* G.neighbors(v) / G._adj[v], in iteration order: a dict keyed by small
\* integers iterates in ascending key order
Neighbors(g, v) == SortedSeq({ u \in g.nodes : {v, u} \in g.edges })

\* the (v, u) pairs estimate_min_max visits
DirectedEdges(g) == { e \in g.nodes \X g.nodes : {e[1], e[2]} \in g.edges }

(***************************************************************************)
(* Edge-weight functions of MeshGraphSearch.                               *)
(***************************************************************************)
\* the calibration constants of the energy model; the rotation term in
\* tenths, the slope terms in hundredths
EnergyRot10 == 377359
EnergyDownSlope100 == 47507
EnergyDownBase100 == 108930
EnergyUpSlope100 == 56497
EnergyUpBase100 == 136490

\* c_short, c_energy, c_traversal as run_graph_process passes them, in quarters
c_short == 1
c_energy == 1
c_traversal == 2

\* weight_euclidean_distance(v, u), in 1/LenScale
EuclideanDistance(v, u) == Norm(Sub(Pos(v), Pos(u)))

DistanceTable == Table([e \in Nodes \X Nodes |-> EuclideanDistance(e[1], e[2])])

weight_euclidean_distance(v, u) == DistanceTable[<< v, u >>]

\* math.fabs
Fabs(x) == IF x < 0 THEN 0 - x ELSE x

\* the fold of calculate_traversal_angle: an angle above 90 is that of an
\* inverted normal
FoldAngle(theta) == IF theta > 90 THEN Fabs(theta - 180) ELSE theta

\* calculate_traversal_angle(face_normal): inclination to gravity folded
\* into [0, 90], in degrees
calculate_traversal_angle(face_normal) ==
  FoldAngle(angle_between_vectors(face_normal, ZVector))

\* the normals a vertex may have, and the traversal angle of each
NormalVectors ==
  << <<0, 0, 1>>, <<0, 0, 0 - 1>>, <<1, 0, 2>>, <<1, 0, 1>>, <<1, 0, 0>>, <<1, 1, 0 - 1>> >>

TraversalTable ==
  Table([i \in 1 .. Len(NormalVectors) |-> calculate_traversal_angle(NormalVectors[i])])

\* weight_traversability(u): nrm[u] is the index of self.normals[u] in
\* NormalVectors
weight_traversability(nrm, u) == TraversalTable[nrm[u]]

\* Python's "not predecessor": true of None and of the id 0
NotPredecessor(predecessor) == predecessor = None \/ predecessor = 0

\* a faulty variant of the energy formula: the downhill slope term has lost
\* its sign
EnergyFormulaUnsignedSlope(rot, angle, d) ==
  IF angle < 0
  THEN (((EnergyRot10 * rot
          + 36 * (EnergyDownSlope100 * angle + EnergyDownBase100)) \div 360) * d)
       \div (10 * LenScale)
  ELSE (((EnergyRot10 * rot
          + 36 * (EnergyUpSlope100 * angle + EnergyUpBase100)) \div 360) * d)
       \div (10 * LenScale)

\* the energy formula of weight_energy for a rotation rot and a slope angle
\* (both in degrees) over a length d, in whole energy units
EnergyFormula(rot, angle, d) ==
  IF angle < 0
  THEN (((EnergyRot10 * rot
          + 36 * ((0 - EnergyDownSlope100) * angle + EnergyDownBase100)) \div 360) * d)
       \div (10 * LenScale)
  ELSE (((EnergyRot10 * rot
          + 36 * (EnergyUpSlope100 * angle + EnergyUpBase100)) \div 360) * d)
       \div (10 * LenScale)

\* weight_energy(v, u, predecessor)
Energy(v, u, predecessor) ==
  IF NotPredecessor(predecessor)
  THEN EnergyFormula(angle_between_vectors(Pos(v), Pos(u)),
                     90 - angle_between_vectors(Sub(Pos(u), Pos(v)), ZVector),
                     EuclideanDistance(v, u))
  ELSE EnergyFormula(angle_between_vectors(Sub(Pos(v), Pos(predecessor)),
                                           Sub(Pos(u), Pos(v))),
                     90 - angle_between_vectors(Sub(Pos(v), Pos(predecessor)), ZVector),
                     EuclideanDistance(v, u))

PredContexts == Nodes \cup {None}

EnergyTable ==
  Table([x \in Nodes \X Nodes \X PredContexts |-> Energy(x[1], x[2], x[3])])

weight_energy(v, u, predecessor) == EnergyTable[<< v, u, predecessor >>]

\* weight_rotation(v, u, predecessor), in degrees
Rotation(v, u, predecessor) ==
  IF NotPredecessor(predecessor) THEN 0
  ELSE angle_between_vectors(Sub(XY(Pos(v)), XY(Pos(predecessor))),
                             Sub(XY(Pos(u)), XY(Pos(v))))

RotationTable ==
  Table([x \in Nodes \X Nodes \X PredContexts |-> Rotation(x[1], x[2], x[3])])

weight_rotation(v, u, predecessor) == RotationTable[<< v, u, predecessor >>]

SetMin(S) == CHOOSE x \in S : \A y \in S : x <= y
SetMax(S) == CHOOSE x \in S : \A y \in S : x >= y

\* estimate_min_max(): the min and max of every sub-metric over the (v, u)
\* adjacency pairs of G, without predecessor
estimate_min_max(g, nrm) ==
  [ min_dist |-> SetMin({ weight_euclidean_distance(e[1], e[2]) : e \in DirectedEdges(g) }),
    max_dist |-> SetMax({ weight_euclidean_distance(e[1], e[2]) : e \in DirectedEdges(g) }),
    min_energy |-> SetMin({ weight_energy(e[1], e[2], None) : e \in DirectedEdges(g) }),
    max_energy |-> SetMax({ weight_energy(e[1], e[2], None) : e \in DirectedEdges(g) }),
    min_traversability |->
      SetMin({ weight_traversability(nrm, e[2]) : e \in DirectedEdges(g) }),
    max_traversability |->
      SetMax({ weight_traversability(nrm, e[2]) : e \in DirectedEdges(g) }),
    min_rotation |-> SetMin({ weight_rotation(e[1], e[2], None) : e \in DirectedEdges(g) }),
    max_rotation |-> SetMax({ weight_rotation(e[1], e[2], None) : e \in DirectedEdges(g) }) ]

Metrics == { "SHORTEST", "FLATTEST", "ENERGY", "COMBINED", "STRAIGHTEST" }

\* pred_node of edge_weight_by_metric: the first predecessor, if any
PredNode(predv) == IF Len(predv) > 0 THEN predv[1] ELSE None

\* edge_weight_by_metric(v, u, pred): pred is the predecessor list of v.
\* SHORTEST in 1/LenScale m, FLATTEST in 1/LenScale (degrees + m), ENERGY in
\* energy units, COMBINED in 1/(4*NormScale), STRAIGHTEST in degrees.
edge_weight_by_metric(m, mm, nrm, v, u, predv) ==
  CASE m = "SHORTEST" -> weight_euclidean_distance(v, u)
    [] m = "FLATTEST" ->
         LenScale * weight_traversability(nrm, u) + weight_euclidean_distance(v, u)
    [] m = "ENERGY" -> weight_energy(v, u, PredNode(predv))
    [] m = "COMBINED" ->
         normalize_from_minmax(weight_euclidean_distance(v, u), mm.min_dist, mm.max_dist)
           * c_short
         + normalize_from_minmax(weight_traversability(nrm, u), mm.min_traversability,
                                 mm.max_traversability) * c_traversal
         + normalize_from_minmax(weight_energy(v, u, PredNode(predv)), mm.min_energy,
                                 mm.max_energy) * c_energy
    [] m = "STRAIGHTEST" -> weight_rotation(v, u, PredNode(predv))

(***************************************************************************)
(* dijkstra_search and _dijkstra_multisource.                              *)
(***************************************************************************)
\* what a call left behind: kind is "none" (no call ended yet), "pair"
\* (cost, path), "maps" (dist, paths) or "error"
NoResult == [kind |-> "none", err |-> "", cost |-> None, path |-> <<>>]
Returned(cost, p) == [kind |-> "pair", err |-> "", cost |-> cost, path |-> p]
ReturnedMaps == [kind |-> "maps", err |-> "", cost |-> None, path |-> <<>>]
Raised(e) == [kind |-> "error", err |-> e, cost |-> None, path |-> <<>>]

\* "sources in sources": whether the collection is a member of itself; never
\* so for a set or list of node ids
SourcesInSources(srcs) == FALSE

\* the heap's order on (distance, counter, node) entries; counters are unique
EntryLess(a, b) == a[1] < b[1] \/ (a[1] = b[1] /\ a[2] < b[2])

\* faulty variants of heappop: a stack (the newest entry first), and the
\* greatest entry first
HeapNewest(f) == CHOOSE e \in f : \A o \in f : o[2] <= e[2]
HeapMax(f) == CHOOSE e \in f : \A o \in f : o = e \/ EntryLess(o, e)

\* a faulty variant of heappop: among the entries of least distance, the
\* one pushed last
HeapMinNewest(f) ==
  CHOOSE e \in f : \A o \in f : o = e \/ e[1] < o[1] \/ (e[1] = o[1] /\ e[2] > o[2])

\* heappop: the least entry of the fringe
HeapMin(f) == CHOOSE e \in f : \A o \in f : o = e \/ EntryLess(e, o)

\* a faulty variant of the seeding loop: a source is pushed without being
\* looked up in G
RECURSIVE SeedSourcesUnchecked(_, _, _, _)
SeedSourcesUnchecked(g, srcs, i, st) ==
  IF i > Len(srcs) THEN st
  ELSE SeedSourcesUnchecked(g, srcs, i + 1,
         [st EXCEPT !.seen = Put(st.seen, srcs[i], 0),
                    !.fringe = st.fringe \cup { << 0, st.c, srcs[i] >> },
                    !.pushed = Append(st.pushed, << 0, st.c, srcs[i] >>),
                    !.c = st.c + 1])

\* the seeding loop of _dijkstra_multisource from position i of the sources:
\* a source that is not in G raises NodeNotFound
RECURSIVE SeedSources(_, _, _, _)
SeedSources(g, srcs, i, st) ==
  IF i > Len(srcs) THEN st
  ELSE IF srcs[i] \notin g.nodes THEN [st EXCEPT !.err = "NodeNotFound"]
  ELSE SeedSources(g, srcs, i + 1,
         [st EXCEPT !.seen = Put(st.seen, srcs[i], 0),
                    !.fringe = st.fringe \cup { << 0, st.c, srcs[i] >> },
                    !.pushed = Append(st.pushed, << 0, st.c, srcs[i] >>),
                    !.c = st.c + 1])

\* a faulty variant of the relaxation: a node already seen is never improved
RelaxToFirstSeen(st, dst, cut, v, u, vu_dist) ==
  IF cut # None /\ vu_dist > cut THEN st
  ELSE IF u \in DOMAIN dst
       THEN IF vu_dist < dst[u] THEN [st EXCEPT !.err = "ContradictoryPaths"]
            ELSE st
  ELSE IF u \notin DOMAIN st.seen
       THEN [st EXCEPT !.seen = Put(st.seen, u, vu_dist),
                       !.fringe = st.fringe \cup { << vu_dist, st.c, u >> },
                       !.pushed = Append(st.pushed, << vu_dist, st.c, u >>),
                       !.c = st.c + 1,
                       !.paths = Put(st.paths, u, Append(st.paths[v], u)),
                       !.pred = Put(st.pred, u, << v >>)]
  ELSE IF vu_dist = st.seen[u]
       THEN [st EXCEPT !.pred = Put(st.pred, u, Append(st.pred[u], v))]
  ELSE st

\* a faulty variant of the relaxation: an improvement keeps the path recorded
\* at the first visit
RelaxToKeepPath(st, dst, cut, v, u, vu_dist) ==
  IF cut # None /\ vu_dist > cut THEN st
  ELSE IF u \in DOMAIN dst
       THEN IF vu_dist < dst[u] THEN [st EXCEPT !.err = "ContradictoryPaths"]
            ELSE st
  ELSE IF u \notin DOMAIN st.seen \/ vu_dist < st.seen[u]
       THEN [st EXCEPT !.seen = Put(st.seen, u, vu_dist),
                       !.fringe = st.fringe \cup { << vu_dist, st.c, u >> },
                       !.pushed = Append(st.pushed, << vu_dist, st.c, u >>),
                       !.c = st.c + 1,
                       !.paths = IF u \in DOMAIN st.paths THEN st.paths
                                 ELSE Put(st.paths, u, Append(st.paths[v], u)),
                       !.pred = Put(st.pred, u, << v >>)]
  ELSE IF vu_dist = st.seen[u]
       THEN [st EXCEPT !.pred = Put(st.pred, u, Append(st.pred[u], v))]
  ELSE st

\* the relaxation of one edge (v, u) of the for loop once vu_dist is known
RelaxTo(st, dst, cut, v, u, vu_dist) ==
  IF cut # None /\ vu_dist > cut THEN st
  ELSE IF u \in DOMAIN dst
       THEN IF vu_dist < dst[u] THEN [st EXCEPT !.err = "ContradictoryPaths"]
            ELSE st
  ELSE IF u \notin DOMAIN st.seen \/ vu_dist < st.seen[u]
       THEN [st EXCEPT !.seen = Put(st.seen, u, vu_dist),
                       !.fringe = st.fringe \cup { << vu_dist, st.c, u >> },
                       !.pushed = Append(st.pushed, << vu_dist, st.c, u >>),
                       !.c = st.c + 1,
                       !.paths = Put(st.paths, u, Append(st.paths[v], u)),
                       !.pred = Put(st.pred, u, << v >>)]
  ELSE IF vu_dist = st.seen[u]
       THEN [st EXCEPT !.pred = Put(st.pred, u, Append(st.pred[u], v))]
  ELSE st

\* the relaxation of one edge (v, u) of the for loop, v just finalized
RelaxEdge(st, dst, cut, v, u) ==
  RelaxTo(st, dst, cut, v, u,
          dst[v] + edge_weight_by_metric(metric, minmax, normals, v, u, st.pred[v]))

\* the for loop over the neighbours us of v, left at the first error
RECURSIVE Relax(_, _, _, _, _)
Relax(st, dst, cut, v, us) ==
  IF us = <<>> \/ st.err # "" THEN st
  ELSE Relax(RelaxEdge(st, dst, cut, v, Head(us)), dst, cut, v, Tail(us))

\* the source collections a caller may pass: sequences without repetition
SourceSeqs ==
  { s \in UNION { [1 .. n -> Nodes] : n \in 0 .. MaxSources } :
      \A i, j \in 1 .. Len(s) : i # j => s[i] # s[j] }

\* the call of _dijkstra_multisource by dijkstra_search, up to the while
\* loop; st is the outcome of the seeding loop
StartSearch(srcs, st) ==
  /\ pred' = [x \in SeqToSet(srcs) |-> <<>>]
  /\ paths' = [x \in SeqToSet(srcs) |-> << x >>]
  /\ dist' = EmptyMap
  /\ seen' = st.seen
  /\ fringe' = st.fringe
  /\ c' = st.c
  /\ pushLog' = st.pushed
  /\ IF st.err # ""
     THEN pc' = "raised" /\ result' = Raised(st.err)
     ELSE pc' = "loop" /\ result' = result

\* dijkstra_search(sources, target, cutoff) up to the while loop
Call(srcs, t, cut) ==
  /\ pc = "idle"
  /\ sources' = srcs
  /\ target' = t
  /\ cutoff' = cut
  /\ UNCHANGED << objectVars, popLog, prepareVars, unitVars >>
  /\ IF Len(srcs) = 0
     THEN /\ pc' = "raised"
          /\ result' = Raised("ValueError")
          /\ UNCHANGED << dist, seen, paths, pred, fringe, c, pushLog >>
     ELSE IF SourcesInSources(srcs)
     THEN /\ pc' = "returned"
          /\ result' = Returned(0, srcs)
          /\ UNCHANGED << dist, seen, paths, pred, fringe, c, pushLog >>
     ELSE StartSearch(srcs, SeedSources(G, srcs, 1,
                        [seen |-> EmptyMap, fringe |-> {}, pushed |-> <<>>, c |-> 0,
                         err |-> ""]))

\* a faulty variant of the end of dijkstra_search: a missing target yields
\* (None, None) where NetworkXNoPath is due
ReturnOfNone(dst) ==
  IF target = None
  THEN /\ result' = ReturnedMaps
       /\ pc' = "returned"
       /\ UNCHANGED << path, path_distance >>
  ELSE IF target \notin DOMAIN paths \/ target \notin DOMAIN dst
  THEN /\ result' = Returned(None, <<>>)
       /\ pc' = "returned"
       /\ UNCHANGED << path, path_distance >>
  ELSE /\ result' = Returned(dst[target], paths[target])
       /\ pc' = "returned"
       /\ path' = paths[target]
       /\ path_distance' = dst[target]

\* the end of dijkstra_search once _dijkstra_multisource has returned dst:
\* self.path is assigned before dist[target] is looked up
ReturnOf(dst) ==
  IF target = None
  THEN /\ result' = ReturnedMaps
       /\ pc' = "returned"
       /\ UNCHANGED << path, path_distance >>
  ELSE IF target \notin DOMAIN paths
  THEN /\ result' = Raised("NetworkXNoPath")
       /\ pc' = "raised"
       /\ UNCHANGED << path, path_distance >>
  ELSE IF target \notin DOMAIN dst
  THEN /\ result' = Raised("NetworkXNoPath")
       /\ pc' = "raised"
       /\ path' = paths[target]
       /\ UNCHANGED path_distance
  ELSE /\ result' = Returned(dst[target], paths[target])
       /\ pc' = "returned"
       /\ path' = paths[target]
       /\ path_distance' = dst[target]

\* a faulty variant of the stale pop: the popped distance is written to dist
StaleOverwrites(e) ==
  /\ e[3] \in DOMAIN dist
  /\ fringe' = fringe \ {e}
  /\ dist' = Put(dist, e[3], e[1])
  /\ UNCHANGED << objectVars, pc, sources, target, cutoff, seen, paths, pred, c,
                  result, popLog, pushLog, prepareVars, unitVars >>

\* a faulty variant of the stale pop: no continue, the node is finalized
\* again with the popped distance
StaleExpands(e) ==
  /\ e[3] \in DOMAIN dist
  /\ dist' = Put(dist, e[3], e[1])
  /\ popLog' = Append(popLog, << e[3], e[1] >>)
  /\ seen' = seen
  /\ fringe' = fringe \ {e}
  /\ UNCHANGED << objectVars, pc, sources, target, cutoff, paths, pred, c, result,
                  pushLog, prepareVars, unitVars >>

\* a while iteration that pops the entry e of a node already in dist
Stale(e) ==
  /\ e[3] \in DOMAIN dist
  /\ fringe' = fringe \ {e}
  /\ UNCHANGED << objectVars, pc, sources, target, cutoff, dist, seen, paths, pred, c,
                  result, popLog, pushLog, prepareVars, unitVars >>

PopStale == pc = "loop" /\ fringe # {} /\ Stale(HeapMin(fringe))

\* a faulty variant of the pop of the target: no break, the edges of the
\* target are relaxed and the loop goes on
FoundContinues(e) ==
  /\ e[3] \notin DOMAIN dist
  /\ e[3] = target
  /\ dist' = Put(dist, e[3], e[1])
  /\ popLog' = Append(popLog, << e[3], e[1] >>)
  /\ seen' = Relax([seen |-> seen, fringe |-> fringe \ {e}, pushed |-> pushLog,
                    c |-> c, paths |-> paths, pred |-> pred, err |-> ""],
                   Put(dist, e[3], e[1]), cutoff, e[3], Neighbors(G, e[3])).seen
  /\ fringe' = Relax([seen |-> seen, fringe |-> fringe \ {e}, pushed |-> pushLog,
                      c |-> c, paths |-> paths, pred |-> pred, err |-> ""],
                     Put(dist, e[3], e[1]), cutoff, e[3], Neighbors(G, e[3])).fringe
  /\ pushLog' = Relax([seen |-> seen, fringe |-> fringe \ {e}, pushed |-> pushLog,
                       c |-> c, paths |-> paths, pred |-> pred, err |-> ""],
                      Put(dist, e[3], e[1]), cutoff, e[3], Neighbors(G, e[3])).pushed
  /\ c' = Relax([seen |-> seen, fringe |-> fringe \ {e}, pushed |-> pushLog,
                 c |-> c, paths |-> paths, pred |-> pred, err |-> ""],
                Put(dist, e[3], e[1]), cutoff, e[3], Neighbors(G, e[3])).c
  /\ paths' = Relax([seen |-> seen, fringe |-> fringe \ {e}, pushed |-> pushLog,
                     c |-> c, paths |-> paths, pred |-> pred, err |-> ""],
                    Put(dist, e[3], e[1]), cutoff, e[3], Neighbors(G, e[3])).paths
  /\ pred' = Relax([seen |-> seen, fringe |-> fringe \ {e}, pushed |-> pushLog,
                    c |-> c, paths |-> paths, pred |-> pred, err |-> ""],
                   Put(dist, e[3], e[1]), cutoff, e[3], Neighbors(G, e[3])).pred
  /\ UNCHANGED << objectVars, pc, result, sources, target, cutoff, prepareVars, unitVars >>

\* the while iteration that pops the entry e of the target: break, and
\* dijkstra_search returns
Found(e) ==
  /\ e[3] \notin DOMAIN dist
  /\ e[3] = target
  /\ fringe' = fringe \ {e}
  /\ dist' = Put(dist, e[3], e[1])
  /\ popLog' = Append(popLog, << e[3], e[1] >>)
  /\ ReturnOf(Put(dist, e[3], e[1]))
  /\ UNCHANGED << G, normals, metric, minmax, sources, target, cutoff, seen, paths, pred,
                  c, pushLog, prepareVars, unitVars >>

PopTarget == pc = "loop" /\ fringe # {} /\ Found(HeapMin(fringe))

\* the rest of a while iteration once the for loop over the edges of v has
\* left st
Expanded(st) ==
  /\ seen' = st.seen
  /\ fringe' = st.fringe
  /\ pushLog' = st.pushed
  /\ c' = st.c
  /\ paths' = st.paths
  /\ pred' = st.pred
  /\ IF st.err # ""
     THEN pc' = "raised" /\ result' = Raised(st.err)
     ELSE pc' = "loop" /\ result' = result

\* a while iteration that pops the entry e of a node other than the target,
\* finalizes it and relaxes its edges
Expand(e) ==
  /\ e[3] \notin DOMAIN dist
  /\ e[3] # target
  /\ dist' = Put(dist, e[3], e[1])
  /\ popLog' = Append(popLog, << e[3], e[1] >>)
  /\ Expanded(Relax([seen |-> seen, fringe |-> fringe \ {e}, pushed |-> pushLog,
                     c |-> c, paths |-> paths, pred |-> pred, err |-> ""],
                    Put(dist, e[3], e[1]), cutoff, e[3], Neighbors(G, e[3])))
  /\ UNCHANGED << objectVars, sources, target, cutoff, prepareVars, unitVars >>

PopExpand == pc = "loop" /\ fringe # {} /\ Expand(HeapMin(fringe))

\* the fringe is empty: the while loop ends and dijkstra_search returns
Exhausted ==
  /\ pc = "loop"
  /\ fringe = {}
  /\ ReturnOf(dist)
  /\ UNCHANGED << G, normals, metric, minmax, sources, target, cutoff, dist, seen, paths,
                  pred, fringe, c, popLog, pushLog, prepareVars, unitVars >>

(***************************************************************************)
(* MeshPlannerBase.prepare_graph, step by step.                            *)
(***************************************************************************)
\* self.transversality_threshold: the steepest inclination the robot climbs,
\* in degrees
transversality_threshold == 35

NotRaised == [err |-> "", by |-> ""]
RaisedBy(e, method) == [err |-> e, by |-> method]

\* G.subgraph(ns): the nodes ns of g and the edges of g between them
Subgraph(g, ns) == [nodes |-> g.nodes \cap ns, edges |-> { e \in g.edges : e \subseteq ns }]

\* one round of the breadth-first search: S and the neighbours of S
Grow(g, S) == S \cup { u \in g.nodes : \E v \in S : {v, u} \in g.edges }

RECURSIVE Component(_, _)
\* the nodes of g connected to a node of S
Component(g, S) == IF Grow(g, S) = S THEN S ELSE Component(g, Grow(g, S))

\* nx.node_connected_component(G, source), source a node of g
node_connected_component(g, source) == Component(g, {source})

\* filter_graph_by_traversable_faces(G): every node whose face is steeper
\* than the threshold is removed, with its edges
filter_graph_by_traversable_faces(g, nrm) ==
  Subgraph(g, { v \in g.nodes : ~(weight_traversability(nrm, v) > transversality_threshold) })

\* remove_non_connected_components(G, source): the component of the source;
\* a source that is not in G makes node_connected_component raise, the
\* handler logs the error and G is returned as it is
remove_non_connected_components(g, source) ==
  IF source \in g.nodes THEN Subgraph(g, node_connected_component(g, source))
  ELSE g

\* first step of prepare_graph
FilterTraversable ==
  /\ stage = "start"
  /\ G' = filter_graph_by_traversable_faces(G, normals)
  /\ stage' = "filtered"
  /\ UNCHANGED << normals, metric, minmax, path, path_distance, searchVars,
                  source_id, target_id, adjacency, mesh_frontiers, raised, unitVars >>

\* second step of prepare_graph
RemoveNonConnected ==
  /\ stage = "filtered"
  /\ G' = remove_non_connected_components(G, source_id)
  /\ stage' = "restricted"
  /\ UNCHANGED << normals, metric, minmax, path, path_distance, searchVars,
                  source_id, target_id, adjacency, mesh_frontiers, raised, unitVars >>

\* extract_frontiers_from_mesh(): self.mesh_frontiers becomes a list; the
\* first vertex with at most two adjacent vertices calls .add on it, which a
\* list does not have
ExtractFrontiersFromMesh(adj) ==
  IF \E v \in Nodes : Cardinality(adj[v]) <= 2
  THEN RaisedBy("AttributeError", "extract_frontiers_from_mesh")
  ELSE NotRaised

\* the frontier step of prepare_graph on a mesh.  When
\* extract_frontiers_from_mesh returns, it returns the list, and
\* prepare_graph calls .intersection on it, which a list does not have
FrontierStep(adj) ==
  IF ExtractFrontiersFromMesh(adj) # NotRaised
  THEN ExtractFrontiersFromMesh(adj)
  ELSE RaisedBy("AttributeError", "prepare_graph")

\* third step of prepare_graph: the frontiers
ExtractFrontiers ==
  /\ stage = "restricted"
  /\ mesh_frontiers' = "list"
  /\ raised' = FrontierStep(adjacency)
  /\ stage' = "raised"
  /\ UNCHANGED << objectVars, searchVars, source_id, target_id, adjacency, unitVars >>

\* the adjacency lists of the meshes prepare_graph is run on: a closed mesh
\* (every vertex adjacent to the three others) and an open strip
MeshAdjacencies ==
  { [v \in Nodes |-> Nodes \ {v}],
    [v \in Nodes |-> { u \in Nodes : u = v + 1 \/ v = u + 1 }] }

\* the normals of a mesh with gentle (index 3) and steep (index 4) faces
SlopeNormals == [Nodes -> {3, 4}]

(***************************************************************************)
(* The state of the parts a specification does not exercise.               *)
(***************************************************************************)
FrontierUnused ==
  /\ filtered_reachable_f_ids = {}
  /\ f_visit_ids = <<>>
  /\ f_centroids_ids = <<>>

RunUnused ==
  /\ graph_metrics_types = <<>>
  /\ is_multithread = FALSE
  /\ processes = <<>>
  /\ return_dict = EmptyMap
  /\ run_pc = "none"
  /\ run_result = NoResult

PluginUnused ==
  /\ pybullet_angle_client = FALSE
  /\ optimization_angle_client = FALSE
  /\ plugin_pc = "none"
  /\ plugin_error = ""

ReconnectUnused ==
  /\ checked_nodes = {}
  /\ borderless_g_dict = <<>>
  /\ nearest_checked_nodes = {}

MeshUnused ==
  /\ verts = <<>>
  /\ point_to_id = EmptyMap
  /\ faces = <<>>
  /\ mesh_pc = "none"

SearchUnused ==
  /\ path = <<>>
  /\ path_distance = None
  /\ pc = "none"
  /\ sources = <<>>
  /\ target = None
  /\ cutoff = None
  /\ dist = EmptyMap
  /\ seen = EmptyMap
  /\ paths = EmptyMap
  /\ pred = EmptyMap
  /\ fringe = {}
  /\ c = 0
  /\ result = NoResult
  /\ popLog = <<>>
  /\ pushLog = <<>>

(***************************************************************************)
(* The search specification: a MeshGraphSearch constructed over a graph    *)
(* with at least one edge (estimate_min_max needs one), then one call of   *)
(* dijkstra_search.                                                        *)
(***************************************************************************)
AllPairs == { {a, b} : a, b \in Nodes } \ { {a} : a \in Nodes }

Graphs == { [nodes |-> UNION E, edges |-> E] : E \in (SUBSET AllPairs) \ {{}} }

Init ==
  /\ G \in Graphs
  /\ normals = [v \in Nodes |-> (v % Len(NormalVectors)) + 1]
  /\ metric \in Metrics
  /\ minmax = estimate_min_max(G, normals)
  /\ path = <<>>
  /\ path_distance = None
  /\ pc = "idle"
  /\ sources = <<>>
  /\ target = None
  /\ cutoff = None
  /\ dist = EmptyMap
  /\ seen = EmptyMap
  /\ paths = EmptyMap
  /\ pred = EmptyMap
  /\ fringe = {}
  /\ c = 0
  /\ result = NoResult
  /\ popLog = <<>>
  /\ pushLog = <<>>
  /\ stage = "none"
  /\ source_id = None
  /\ target_id = None
  /\ adjacency = EmptyMap
  /\ mesh_frontiers = "set"
  /\ raised = NotRaised
  /\ FrontierUnused
  /\ RunUnused
  /\ PluginUnused
  /\ MeshUnused
  /\ ReconnectUnused

Next ==
  \/ \E srcs \in SourceSeqs, t \in Nodes \cup {None}, cut \in {None, CutoffValue} :
       Call(srcs, t, cut)
  \/ PopStale
  \/ PopTarget
  \/ PopExpand
  \/ Exhausted

Spec == Init /\ [][Next]_vars

(***************************************************************************)
(* Reference notions the properties are stated with.                       *)
(***************************************************************************)
\* the call has ended, by a return or by an exception
Ended == pc \in {"returned", "raised"}

\* the non-empty sequences of pairwise distinct vertex ids
SimplePaths ==
  { p \in UNION { [1 .. n -> Nodes] : n \in 1 .. Cardinality(Nodes) } :
      \A i, j \in 1 .. Len(p) : i # j => p[i] # p[j] }

\* p is a walk of g: it starts at a node and follows edges
IsWalk(g, p) ==
  /\ Len(p) >= 1
  /\ p[1] \in g.nodes
  /\ \A i \in 1 .. (Len(p) - 1) : {p[i], p[i + 1]} \in g.edges

RECURSIVE EuclideanLength(_)
\* the sum of the Euclidean lengths of the edges of p
EuclideanLength(p) ==
  IF Len(p) <= 1 THEN 0
  ELSE weight_euclidean_distance(p[1], p[2]) + EuclideanLength(Tail(p))

\* the simple paths of g from s to t
PathsBetween(g, s, t) ==
  { p \in SimplePaths : p[1] = s /\ p[Len(p)] = t /\ IsWalk(g, p) }

\* the reference shortest-path cost: the least Euclidean length of a simple
\* path from s to t, by enumeration
ReferenceShortest(g, s, t) == SetMin({ EuclideanLength(p) : p \in PathsBetween(g, s, t) })

\* the weights of the edges out of the finalized nodes, each taken with the
\* predecessor list of its node, are non-negative
EvaluatedWeightsNonNegative ==
  \A v \in DOMAIN dist : \A u \in G.nodes :
    ({v, u} \in G.edges /\ v \in DOMAIN pred)
    => edge_weight_by_metric(metric, minmax, normals, v, u, pred[v]) >= 0

\* a sequence of (node, distance) pairs whose distances never decrease
NonDecreasing(log) == \A i, j \in 1 .. Len(log) : i < j => log[i][2] <= log[j][2]

(***************************************************************************)
(* Properties of the search.                                               *)
(***************************************************************************)
\* C1: under SHORTEST, a call with a single source s and a target t that is
\* reachable from s returns, and the cost it returns is the cost of a
\* reference shortest-path computation over the Euclidean edge lengths.
C1_ShortestCostIsMinimal ==
  (/\ Ended
   /\ metric = "SHORTEST"
   /\ Len(sources) = 1
   /\ cutoff = None
   /\ target # None
   /\ PathsBetween(G, sources[1], target) # {})
  => (/\ result.kind = "pair"
      /\ result.cost = ReferenceShortest(G, sources[1], target))

\* C1 happens: a SHORTEST search returned a route of three vertices or more
\* although a longer route to the same target exists
C1_Witness ==
  /\ pc = "returned"
  /\ metric = "SHORTEST"
  /\ Len(sources) = 1
  /\ cutoff = None
  /\ target # None
  /\ Len(result.path) >= 3
  /\ \E p \in PathsBetween(G, sources[1], target) : EuclideanLength(p) > result.cost

\* C2: if the target is one of the sources, the call returns cost 0 and the
\* path [t], for every metric and every graph that contains t.
C2_TargetAmongSourcesReturnsZero ==
  (/\ Ended
   /\ target # None
   /\ target \in SeqToSet(sources)
   /\ target \in G.nodes)
  => (/\ result.kind = "pair"
      /\ result.cost = 0
      /\ result.path = << target >>)

\* C3: when the fringe empties without the target having been popped, the
\* call raises NetworkXNoPath and leaves path and path_distance as they were.
C3_ExhaustedRaisesNoPath ==
  [][(pc = "loop" /\ fringe = {} /\ target # None)
     => (/\ target \notin DOMAIN dist
         /\ pc' = "raised"
         /\ result' = Raised("NetworkXNoPath")
         /\ path' = path
         /\ path_distance' = path_distance)]_vars

\* C3 happens: a search that finalized nodes ended with NetworkXNoPath
C3_Witness ==
  /\ pc = "raised"
  /\ result = Raised("NetworkXNoPath")
  /\ target \in G.nodes
  /\ Len(popLog) >= 2
  /\ fringe = {}

\* C4: if a source is not a node of G, the call raises NodeNotFound before
\* any node is finalized, and path and path_distance stay as they were.
C4_MissingSourceRaisesNodeNotFound ==
  (pc # "idle" /\ \E i \in 1 .. Len(sources) : sources[i] \notin G.nodes)
  => (/\ pc = "raised"
      /\ result = Raised("NodeNotFound")
      /\ dist = EmptyMap
      /\ popLog = <<>>
      /\ path = <<>>
      /\ path_distance = None)

\* C4 happens: the second source is missing, the first was already pushed
C4_Witness ==
  /\ pc = "raised"
  /\ Len(sources) = 2
  /\ sources[1] \in G.nodes
  /\ sources[2] \notin G.nodes
  /\ Len(pushLog) = 1

\* C5: under SHORTEST, a returned path starts at a source, ends at the
\* target, follows edges of G, and the returned cost is the sum of the
\* Euclidean lengths of its edges.
C5_ShortestPathIsConsistent ==
  (pc = "returned" /\ result.kind = "pair" /\ metric = "SHORTEST")
  => (/\ IsWalk(G, result.path)
      /\ result.path[1] \in SeqToSet(sources)
      /\ result.path[Len(result.path)] = target
      /\ result.cost = EuclideanLength(result.path)
      /\ path = result.path
      /\ path_distance = result.cost)

\* C5 happens: a SHORTEST search returned a route of three vertices whose
\* last node had been reached by a longer route first
C5_Witness ==
  /\ pc = "returned"
  /\ metric = "SHORTEST"
  /\ Len(result.path) = 3
  /\ \E i \in 1 .. Len(pushLog) : pushLog[i][3] = target /\ pushLog[i][1] > result.cost

\* C6: for every metric, the distances of the nodes finalized are
\* non-decreasing in the order in which they are popped.
C6_FinalizedDistancesNonDecreasing == NonDecreasing(popLog)

\* C6 happens: three nodes were finalized at three different distances while
\* a stale entry was in the fringe
C6_Witness ==
  /\ Len(popLog) >= 3
  /\ popLog[1][2] < popLog[2][2]
  /\ popLog[2][2] < popLog[3][2]
  /\ \E e \in fringe : e[3] \in DOMAIN dist

\* C7: edge_weight_by_metric is non-negative for SHORTEST, FLATTEST, ENERGY,
\* COMBINED and STRAIGHTEST, for every edge (v, u) of the graph and every
\* predecessor context (none, or any node as first predecessor).
C7_EdgeWeightNonNegative ==
  \A e \in DirectedEdges(G) : \A p \in PredContexts :
    edge_weight_by_metric(metric, minmax, normals, e[1], e[2],
                          IF p = None THEN <<>> ELSE << p >>) >= 0

\* C7 happens: a COMBINED search relaxed an edge whose energy with its
\* predecessor lies below the least energy estimate_min_max recorded
C7_Witness ==
  /\ metric = "COMBINED"
  /\ \E i \in 1 .. Len(popLog) : \E u \in G.nodes :
       /\ {popLog[i][1], u} \in G.edges
       /\ pred[popLog[i][1]] # <<>>
       /\ weight_energy(popLog[i][1], u, pred[popLog[i][1]][1]) < minmax.min_energy

\* C8: if every edge weight the search evaluated (for the edges of the nodes
\* it finalized, each with the predecessor the node had) is non-negative,
\* the search has not raised 'Contradictory paths found'.
C8_NoContradictoryPaths ==
  EvaluatedWeightsNonNegative => result.err # "ContradictoryPaths"

\* C8 happens: the relaxation met an edge into a node already finalized,
\* where the contradiction test is made
C8_Witness ==
  /\ pc = "loop"
  /\ EvaluatedWeightsNonNegative
  /\ Len(popLog) >= 3
  /\ {popLog[3][1], popLog[2][1]} \in G.edges
  /\ popLog[3][2] > popLog[2][2]

(***************************************************************************)
(* The preparation specification: one call of prepare_graph on a graph of  *)
(* the mesh, with a source and an optional target among the vertex ids.    *)
(***************************************************************************)
InitPrepare ==
  /\ G \in Graphs
  /\ normals \in SlopeNormals
  /\ metric = "SHORTEST"
  /\ minmax = EmptyMap
  /\ path = <<>>
  /\ path_distance = None
  /\ pc = "none"
  /\ sources = <<>>
  /\ target = None
  /\ cutoff = None
  /\ dist = EmptyMap
  /\ seen = EmptyMap
  /\ paths = EmptyMap
  /\ pred = EmptyMap
  /\ fringe = {}
  /\ c = 0
  /\ result = NoResult
  /\ popLog = <<>>
  /\ pushLog = <<>>
  /\ stage = "start"
  /\ source_id \in Nodes
  /\ target_id \in Nodes \cup {None}
  /\ adjacency \in MeshAdjacencies
  /\ mesh_frontiers = "set"
  /\ raised = NotRaised
  /\ FrontierUnused
  /\ RunUnused
  /\ PluginUnused
  /\ MeshUnused
  /\ ReconnectUnused

NextPrepare ==
  \/ FilterTraversable
  \/ RemoveNonConnected
  \/ ExtractFrontiers

SpecPrepare == InitPrepare /\ [][NextPrepare]_vars

(***************************************************************************)
(* Properties of prepare_graph.                                            *)
(***************************************************************************)
\* the call of prepare_graph has ended, by a return or by an exception
PrepareEnded == stage \in {"returned", "raised"}

C10_PreparedGraphHoldsSourceAndTarget ==
  PrepareEnded
  => (/\ stage = "returned"
      /\ source_id \in G.nodes
      /\ (target_id # None => target_id \in G.nodes))

\* the degree of node v in g
Degree(g, v) == Cardinality({ u \in g.nodes : {v, u} \in g.edges /\ u # v })

\* the face of vertex v is steeper than the robot climbs
Steep(v) == weight_traversability(normals, v) > transversality_threshold

\* the exception that leaves run_graph_process, which handles none: that of
\* prepare_graph, or else that of dijkstra_search
PlanningError == IF stage = "raised" THEN raised.err ELSE result.err

\* C11: if the source is not in the graph when the connected-component
\* restriction runs, the pipeline fails there with SourceUnreachable; it does
\* not go on with the unrestricted graph.
C11_MissingSourceStopsPreparation ==
  [][(stage = "filtered" /\ source_id \notin G.nodes)
     => (stage' = "raised" /\ raised'.err = "SourceUnreachable")]_vars

\* C12: if after the traversability filter the target, itself traversable,
\* is not in the connected component of the source, planning fails with
\* NetworkXNoPath (NoPathTo(target)).
C12_IsolatedTargetFailsWithNoPath ==
  (/\ PrepareEnded
   /\ source_id \in G.nodes
   /\ target_id # None
   /\ ~Steep(target_id)
   /\ target_id \notin Component(G, {source_id}))
  => PlanningError = "NetworkXNoPath"

\* C13: if the source lies on a steep face and a traversable node exists,
\* preparation succeeds and the source is in the prepared graph with exactly
\* one incident edge, which joins it to the surviving node nearest to it.
C13_SteepSourceIsReconnected ==
  (/\ PrepareEnded
   /\ Steep(source_id)
   /\ \E v \in G.nodes : v # source_id /\ ~Steep(v))
  => (/\ stage = "returned"
      /\ source_id \in G.nodes
      /\ Degree(G, source_id) = 1
      /\ \E n \in G.nodes :
           /\ {source_id, n} \in G.edges
           /\ \A m \in G.nodes \ {source_id} :
                weight_euclidean_distance(source_id, n)
                  <= weight_euclidean_distance(source_id, m))

\* C14: the frontier extraction of prepare_graph completes (and then yields
\* the intersection of the mesh frontiers and the graph frontiers): it does
\* not end prepare_graph with an error.
C14_FrontierExtractionCompletes ==
  ~(/\ stage = "raised"
    /\ raised.by \in {"extract_frontiers_from_mesh", "prepare_graph"})

(***************************************************************************)
(* cluster_frontier_borders and the end of prepare_graph (from the         *)
(* clustering of the reachable frontiers to the return).                   *)
(***************************************************************************)
\* the defaults of cluster_frontier_borders: dbscan_eps in tenths, and
\* dbscan_min_samples
dbscan_eps10 == 25
dbscan_min_samples == 2

\* the points of F within eps of v, v included
EpsNeighbours(F, v) ==
  { u \in F : 10 * weight_euclidean_distance(v, u) <= dbscan_eps10 * LenScale }

\* db.core_sample_indices_: the points with enough points around them
CoreSamples(F) == { v \in F : Cardinality(EpsNeighbours(F, v)) >= dbscan_min_samples }

\* the core samples as a graph, two of them joined when within eps
CoreGraph(F) ==
  [nodes |-> CoreSamples(F),
   edges |-> UNION { { {v, u} : u \in EpsNeighbours(CoreSamples(F), v) \ {v} } : v \in CoreSamples(F) }]

RECURSIVE ClusterSeq(_, _)
\* the core members of each DBSCAN cluster among the points left, in label
\* order: a cluster is labelled when its first point is met
ClusterSeq(F, left) ==
  IF left = {} THEN <<>>
  ELSE << Component(CoreGraph(F), {SetMin(left)}) >>
       \o ClusterSeq(F, left \ Component(CoreGraph(F), {SetMin(left)}))

\* X[class_member_mask & core_samples_mask] for every label but -1
Clusters(F) == ClusterSeq(F, CoreSamples(F))

\* the squared distance between the positions of v and u
SqDistance(v, u) == Dot(Sub(Pos(v), Pos(u)), Sub(Pos(v), Pos(u)))

\* mesh_helper.find_closer_centroid(points, p, force_return_closer=True) for
\* the points of the nodes S listed by ascending id and p the position of the
\* node src: the first of the nearest
CloserToNode(S, src) ==
  SetMin({ v \in S : \A u \in S : SqDistance(v, src) <= SqDistance(u, src) })

RECURSIVE SumOfPositions(_)
SumOfPositions(S) ==
  IF S = {} THEN << 0, 0, 0 >>
  ELSE << Pos(SetMin(S))[1] + SumOfPositions(S \ {SetMin(S)})[1],
          Pos(SetMin(S))[2] + SumOfPositions(S \ {SetMin(S)})[2],
          Pos(SetMin(S))[3] + SumOfPositions(S \ {SetMin(S)})[3] >>

\* the squared distance of node v to the mean of a set of n points whose
\* sum is sum, times n * n
SqDistanceToMean(v, n, sum) ==
  Dot(Sub(<< n * Pos(v)[1], n * Pos(v)[2], n * Pos(v)[3] >>, sum),
      Sub(<< n * Pos(v)[1], n * Pos(v)[2], n * Pos(v)[3] >>, sum))

\* find_closer_centroid(reachable_node_3d_points, centroid): the node of S
\* nearest to get_centroid_of_pts of the cluster, the first of the nearest
CloserToCentroid(S, cluster) ==
  SetMin({ v \in S : \A u \in S :
             SqDistanceToMean(v, Cardinality(cluster), SumOfPositions(cluster))
               <= SqDistanceToMean(u, Cardinality(cluster), SumOfPositions(cluster)) })

\* cluster_frontier_borders(G, reachable_frontiers, source_id): the visit
\* ids and the centroid ids, one of each per cluster
cluster_frontier_borders(g, reachable_frontiers, source) ==
  [visit |-> [i \in 1 .. Len(Clusters(reachable_frontiers)) |->
                CloserToNode(Clusters(reachable_frontiers)[i], source)],
   closest |-> [i \in 1 .. Len(Clusters(reachable_frontiers)) |->
                  CloserToCentroid(g.nodes, Clusters(reachable_frontiers)[i])]]

\* what prepare_graph computes before its return: f_visit_ids and
\* f_centroids_ids stay empty without reachable frontiers
FrontierLists(g, filtered, source) ==
  IF Cardinality(filtered) > 0
  THEN cluster_frontier_borders(g, filtered, source)
  ELSE [visit |-> <<>>, closest |-> <<>>]

\* the return of prepare_graph: G, f_centroids_ids, f_centroids_ids,
\* filtered_reachable_f_ids
PrepareGraphReturn(g, visit, closest, filtered) == << g, closest, closest, filtered >>

\* the end of prepare_graph, received by run_graph_process as
\* G, f_visit_ids, f_centroids_ids, filtered_reachable_frontiers
ReportFrontiers ==
  /\ stage = "frontiers"
  /\ stage' = "returned"
  /\ f_visit_ids' =
       PrepareGraphReturn(G, FrontierLists(G, filtered_reachable_f_ids, source_id).visit,
                          FrontierLists(G, filtered_reachable_f_ids, source_id).closest,
                          filtered_reachable_f_ids)[2]
  /\ f_centroids_ids' =
       PrepareGraphReturn(G, FrontierLists(G, filtered_reachable_f_ids, source_id).visit,
                          FrontierLists(G, filtered_reachable_f_ids, source_id).closest,
                          filtered_reachable_f_ids)[3]
  /\ UNCHANGED << objectVars, searchVars, reconnectVars,
                  source_id, target_id, adjacency, mesh_frontiers,
                  raised, filtered_reachable_f_ids, runVars, pluginVars, meshVars >>

(***************************************************************************)
(* The frontier specification: the end of prepare_graph on a graph that is *)
(* the component of the source, with any set of its nodes as reachable     *)
(* frontiers.                                                              *)
(***************************************************************************)
InitFrontier ==
  /\ G \in Graphs
  /\ source_id \in G.nodes
  /\ G.nodes = Component(G, {source_id})
  /\ filtered_reachable_f_ids \in SUBSET G.nodes
  /\ normals = [v \in Nodes |-> 1]
  /\ metric = "SHORTEST"
  /\ minmax = EmptyMap
  /\ SearchUnused
  /\ stage = "frontiers"
  /\ target_id = None
  /\ adjacency = EmptyMap
  /\ mesh_frontiers = "list"
  /\ raised = NotRaised
  /\ f_visit_ids = <<>>
  /\ f_centroids_ids = <<>>
  /\ RunUnused
  /\ PluginUnused
  /\ MeshUnused
  /\ ReconnectUnused

NextFrontier == ReportFrontiers

SpecFrontier == InitFrontier /\ [][NextFrontier]_vars

ReturnedDict(keys) == [kind |-> "dict", err |-> "", keys |-> keys]

\* run_graph_process(gmt, source_id, target_id, return_dict): what it leaves
\* in return_dict[gmt], or the exception it ends with.  prepare_graph comes
\* first, and an exception of it or of dijkstra_search is not caught here
run_graph_process(adj) ==
  IF FrontierStep(adj) # NotRaised
  THEN Raised(FrontierStep(adj).err)
  ELSE [kind |-> "stored", err |-> "", cost |-> None, path |-> <<>>]

\* run, sequential mode: the loop over graph_metrics_types calls
\* run_graph_process in the caller; the first exception leaves run
RunSequential ==
  /\ run_pc = "start"
  /\ ~is_multithread
  /\ IF Len(graph_metrics_types) > 0 /\ run_graph_process(adjacency).kind = "error"
     THEN /\ run_pc' = "ended"
          /\ run_result' = run_graph_process(adjacency)
          /\ UNCHANGED return_dict
     ELSE /\ run_pc' = "collect"
          /\ return_dict' = [g \in SeqToSet(graph_metrics_types) |-> "g_search"]
          /\ UNCHANGED run_result
  /\ UNCHANGED << objectVars, searchVars, reconnectVars,
                  prepareVars, frontierVars, graph_metrics_types,
                  is_multithread, processes, pluginVars, meshVars >>

\* run, multi-process mode: one child process per metric is started
StartProcesses ==
  /\ run_pc = "start"
  /\ is_multithread
  /\ processes' = [i \in 1 .. Len(graph_metrics_types) |-> "started"]
  /\ run_pc' = "join"
  /\ UNCHANGED << objectVars, searchVars, reconnectVars,
                  prepareVars, frontierVars, graph_metrics_types,
                  is_multithread, return_dict, run_result, pluginVars, meshVars >>

\* a child process runs run_graph_process: an exception ends the child and
\* nothing is written to return_dict
GraphProcess(i) ==
  /\ run_pc = "join"
  /\ processes[i] = "started"
  /\ IF run_graph_process(adjacency).kind = "error"
     THEN /\ processes' = [processes EXCEPT ![i] = "died"]
          /\ UNCHANGED return_dict
     ELSE /\ processes' = [processes EXCEPT ![i] = "exited"]
          /\ return_dict' = Put(return_dict, graph_metrics_types[i], "g_search")
  /\ UNCHANGED << objectVars, searchVars, reconnectVars,
                  prepareVars, frontierVars, graph_metrics_types,
                  is_multithread, run_pc, run_result, pluginVars, meshVars >>

\* the child processes run side by side
GraphProcesses == \E i \in 1 .. Len(processes) : GraphProcess(i)

\* process.join() for every child
JoinProcesses ==
  /\ run_pc = "join"
  /\ \A i \in 1 .. Len(processes) : processes[i] # "started"
  /\ run_pc' = "collect"
  /\ UNCHANGED << objectVars, searchVars, reconnectVars,
                  prepareVars, frontierVars, graph_metrics_types,
                  is_multithread, processes, return_dict, run_result, pluginVars, meshVars >>

\* the last loop of run: return_dict[gmt] for every metric, a KeyError for
\* the first metric without an entry
CollectResults ==
  /\ run_pc = "collect"
  /\ run_pc' = "ended"
  /\ run_result' =
       IF \E i \in 1 .. Len(graph_metrics_types) : graph_metrics_types[i] \notin DOMAIN return_dict
       THEN Raised("KeyError")
       ELSE ReturnedDict({ g \in DOMAIN return_dict : return_dict[g] # "None" })
  /\ UNCHANGED << objectVars, searchVars, reconnectVars,
                  prepareVars, frontierVars, graph_metrics_types,
                  is_multithread, processes, return_dict, pluginVars, meshVars >>

\* the graph of a mesh: one edge per adjacency
MeshGraph(adj) ==
  [nodes |-> Nodes,
   edges |-> { e \in SUBSET Nodes : \E v \in Nodes : \E u \in adj[v] : e = {v, u} }]

\* the lists of metrics run is given
MaxMetrics == 2
MetricLists == UNION { [1 .. n -> Metrics] : n \in 0 .. MaxMetrics }

InitRun ==
  /\ graph_metrics_types \in MetricLists
  /\ is_multithread \in BOOLEAN
  /\ adjacency \in MeshAdjacencies
  /\ source_id \in Nodes
  /\ target_id \in Nodes
  /\ G = MeshGraph(adjacency)
  /\ normals = [v \in Nodes |-> 1]
  /\ metric = "SHORTEST"
  /\ minmax = EmptyMap
  /\ SearchUnused
  /\ stage = "start"
  /\ mesh_frontiers = "set"
  /\ raised = NotRaised
  /\ FrontierUnused
  /\ processes = <<>>
  /\ return_dict = EmptyMap
  /\ run_pc = "start"
  /\ run_result = NoResult
  /\ PluginUnused
  /\ MeshUnused
  /\ ReconnectUnused

NextRun ==
  \/ RunSequential
  \/ StartProcesses
  \/ GraphProcesses
  \/ JoinProcesses
  \/ CollectResults

SpecRun == InitRun /\ [][NextRun]_vars

\* C16: when run has ended, it has returned the records of every metric
\* whose graph process stored a path, whatever happened to the other metrics.
C16_FailureConfinedToMetric ==
  run_pc = "ended"
  => (/\ run_result.kind = "dict"
      /\ run_result.keys = { g \in DOMAIN return_dict : return_dict[g] = "g_search" })

(***************************************************************************)
(* The pose-estimator plugins: the clients given to MeshGraphSearch, the   *)
(* checks of its constructor and the calls of edge_weight_by_metric.       *)
(***************************************************************************)
\* GraphMetricType
GraphMetricTypes ==
  Metrics \cup { "FLATTEST_SIM", "FLATTEST_PYBULLET", "FLATTEST_OPTIMIZATION",
                 "FLATTEST_PYBULLET_NORMAL", "FLATTEST_OPTIMIZATION_NORMAL",
                 "FLATTEST_COMPARISON_TEST", "GLOBAL" }

\* the end of __init__: the metrics checked against a missing client
ConstructorError(m, pybullet, optimization) ==
  IF m \in { "FLATTEST_PYBULLET", "FLATTEST_PYBULLET_NORMAL" } /\ ~pybullet
  THEN "ValueError"
  ELSE IF m \in { "FLATTEST_OPTIMIZATION", "FLATTEST_OPTIMIZATION_NORMAL" } /\ ~optimization
       THEN "ValueError"
       ELSE ""

\* second_neighbors(G, u): u and the neighbours of its neighbours
SecondNeighbours(g, u) ==
  {u} \cup UNION { SeqToSet(Neighbors(g, dn)) : dn \in SeqToSet(Neighbors(g, u)) }

\* the outcomes of "std <= c_threshold_std_angle_terrain" for
\* get_neighbours_angle_mean_std(u): the weighted deviation is zero when the
\* faces around u all have one angle, and is left open otherwise
StdBelowThreshold(g, nrm, u) ==
  IF \A a, b \in SecondNeighbours(g, u) :
       weight_traversability(nrm, a) = weight_traversability(nrm, b)
  THEN {TRUE}
  ELSE BOOLEAN

\* client.estimate_pose(...): an AttributeError on a client that is None
EstimatePose(client) == IF client THEN "" ELSE "AttributeError"

\* the exception edge_weight_by_metric(v, u, pred) ends with, "" when it
\* returns a weight; low is the outcome of the deviation test
EdgeWeightError(m, pybullet, optimization, low) ==
  CASE m \in Metrics -> ""
    [] m = "FLATTEST_COMPARISON_TEST" ->
         IF EstimatePose(pybullet) # "" THEN EstimatePose(pybullet)
         ELSE EstimatePose(optimization)
    [] m = "FLATTEST_PYBULLET" -> EstimatePose(pybullet)
    [] m = "FLATTEST_PYBULLET_NORMAL" -> IF low THEN "" ELSE EstimatePose(pybullet)
    [] m = "FLATTEST_OPTIMIZATION" -> EstimatePose(optimization)
    [] m = "FLATTEST_OPTIMIZATION_NORMAL" -> IF low THEN "" ELSE EstimatePose(optimization)
    [] OTHER -> "TypeError"

\* MeshGraphSearch(G, metric, ..., pybullet_angle_client, optimization_angle_client)
Construct ==
  /\ plugin_pc = "new"
  /\ plugin_error' = ConstructorError(metric, pybullet_angle_client, optimization_angle_client)
  /\ plugin_pc' = IF plugin_error' # "" THEN "raised" ELSE "constructed"
  /\ UNCHANGED << objectVars, searchVars, reconnectVars,
                  prepareVars, frontierVars, runVars,
                  pybullet_angle_client, optimization_angle_client, meshVars >>

\* the first edge weight a search with the constructed object evaluates
EvaluateEdgeWeight ==
  /\ plugin_pc = "constructed"
  /\ \E v \in G.nodes : \E u \in SeqToSet(Neighbors(G, v)) : \E low \in StdBelowThreshold(G, normals, u) :
       /\ plugin_error' = EdgeWeightError(metric, pybullet_angle_client,
                                          optimization_angle_client, low)
       /\ plugin_pc' = IF plugin_error' # "" THEN "raised" ELSE "evaluated"
  /\ UNCHANGED << objectVars, searchVars, reconnectVars,
                  prepareVars, frontierVars, runVars,
                  pybullet_angle_client, optimization_angle_client, meshVars >>

InitPlugin ==
  /\ metric \in GraphMetricTypes
  /\ pybullet_angle_client \in BOOLEAN
  /\ optimization_angle_client \in BOOLEAN
  /\ adjacency \in MeshAdjacencies
  /\ G = MeshGraph(adjacency)
  /\ normals \in SlopeNormals
  /\ minmax = EmptyMap
  /\ SearchUnused
  /\ stage = "start"
  /\ source_id = 0
  /\ target_id = None
  /\ mesh_frontiers = "set"
  /\ raised = NotRaised
  /\ FrontierUnused
  /\ RunUnused
  /\ plugin_pc = "new"
  /\ plugin_error = ""
  /\ MeshUnused
  /\ ReconnectUnused

NextPlugin == Construct \/ EvaluateEdgeWeight

SpecPlugin == InitPlugin /\ [][NextPlugin]_vars

\* the metrics whose edge weight calls the PyBullet client, and those whose
\* edge weight calls the optimization client
CallsPybullet ==
  { "FLATTEST_PYBULLET", "FLATTEST_PYBULLET_NORMAL", "FLATTEST_COMPARISON_TEST" }
CallsOptimization ==
  { "FLATTEST_OPTIMIZATION", "FLATTEST_OPTIMIZATION_NORMAL", "FLATTEST_COMPARISON_TEST" }

\* C17: once the constructor has run with a metric whose edge weight calls a
\* plugin that is missing, it has failed with the configuration error, and no
\* edge weight ever fails on a call of a missing client.
C17_MissingPluginFailsConstruction ==
  /\ (/\ plugin_pc # "new"
      /\ \/ metric \in CallsPybullet /\ ~pybullet_angle_client
         \/ metric \in CallsOptimization /\ ~optimization_angle_client)
     => (plugin_pc = "raised" /\ plugin_error = "ValueError")
  /\ plugin_error # "AttributeError"

(***************************************************************************)
(* The with-predecessor forms of the ENERGY and STRAIGHTEST weights, for   *)
(* any predecessor id.                                                     *)
(***************************************************************************)
\* weight_rotation(v, u, predecessor), the branch with a predecessor: the
\* heading change between v - predecessor and u - v, in degrees
RotationWithPredecessor ==
  Table([x \in Nodes \X Nodes \X Nodes |->
           angle_between_vectors(Sub(XY(Pos(x[1])), XY(Pos(x[3]))),
                                 Sub(XY(Pos(x[2])), XY(Pos(x[1]))))])

\* weight_energy(v, u, predecessor), the branch with a predecessor
EnergyWithPredecessor ==
  Table([x \in Nodes \X Nodes \X Nodes |->
           EnergyFormula(angle_between_vectors(Sub(Pos(x[1]), Pos(x[3])),
                                               Sub(Pos(x[2]), Pos(x[1]))),
                         90 - angle_between_vectors(Sub(Pos(x[1]), Pos(x[3])), ZVector),
                         EuclideanDistance(x[1], x[2]))])

\* the with-predecessor weight of (v, u) under metric m, p the predecessor
WithPredecessorWeight(m, v, u, p) ==
  IF m = "ENERGY" THEN EnergyWithPredecessor[<< v, u, p >>]
  ELSE RotationWithPredecessor[<< v, u, p >>]

\* C18: under ENERGY and STRAIGHTEST, when a node v with a non-empty
\* predecessor list is expanded, every entry pushed for a neighbour u costs
\* the distance of v plus the with-predecessor weight of (v, u) for
\* p = pred[v][0], whatever the id p.
C18_WithPredecessorFormForEveryId ==
  [][(/\ metric \in { "ENERGY", "STRAIGHTEST" }
      /\ pc = "loop"
      /\ Len(popLog') = Len(popLog) + 1
      /\ pred[popLog'[Len(popLog')][1]] # <<>>)
     => \A i \in (Len(pushLog) + 1) .. Len(pushLog') :
          pushLog'[i][1] = popLog'[Len(popLog')][2]
                           + WithPredecessorWeight(metric, popLog'[Len(popLog')][1],
                                                   pushLog'[i][3],
                                                   pred[popLog'[Len(popLog')][1]][1])]_vars

(***************************************************************************)
(* The normalized sub-metrics of the COMBINED weight.                      *)
(***************************************************************************)
\* short_weight of edge_weight_by_metric for the edge (v, u), in 1/NormScale
short_weight(mm, v, u) ==
  normalize_from_minmax(weight_euclidean_distance(v, u), mm.min_dist, mm.max_dist)

\* traversal_weight of edge_weight_by_metric for the edge (v, u)
traversal_weight(mm, nrm, u) ==
  normalize_from_minmax(weight_traversability(nrm, u), mm.min_traversability,
                        mm.max_traversability)

\* energy_weight of edge_weight_by_metric for the edge (v, u) and the
\* predecessor p
energy_weight(mm, v, u, p) ==
  normalize_from_minmax(weight_energy(v, u, p), mm.min_energy, mm.max_energy)

\* n, in 1/NormScale, lies in [0, 1], and is 0 when lo = hi
InUnitRange(n, lo, hi) == n >= 0 /\ n <= NormScale /\ (lo = hi => n = 0)

Points == 0 .. 3

\* the number of triangles of a mesh
MaxTriangles == 2

\* self.mesh.adjacency_list[idx]: the other corners of the triangle of the
\* vertex idx, vertices counted from 0
AdjacencyList(vs, idx) ==
  { j \in 0 .. (Len(vs) - 1) : j \div 3 = idx \div 3 /\ j # idx }

RECURSIVE PointToId(_, _, _)
\* the first loop of prepare_mesh from vertex v_idx on: a position not met
\* before gets the next id
PointToId(vs, v_idx, map) ==
  IF v_idx >= Len(vs) THEN map
  ELSE PointToId(vs, v_idx + 1,
                 IF vs[v_idx + 1] \in DOMAIN map THEN map
                 ELSE Put(map, vs[v_idx + 1], Cardinality(DOMAIN map)))

\* local_face for the vertex idx: the ids of the positions of the adjacent
\* vertices and of idx itself, in the order of list(vert)
LocalFace(vs, map, idx) ==
  [k \in 1 .. Len(SortedSeq(AdjacencyList(vs, idx) \cup {idx})) |->
     map[vs[SortedSeq(AdjacencyList(vs, idx) \cup {idx})[k] + 1]]]

\* self.faces: one local face for every third vertex
Faces(vs, map) == [k \in 1 .. (Len(vs) \div 3) |-> LocalFace(vs, map, 3 * (k - 1))]

\* itertools.combinations(face, 2) as edges: G.add_edge(e[0], e[1]) for two
\* equal ids is a loop on that node, kept as the set of the one id
Combinations(face) ==
  { {face[x[1]], face[x[2]]} :
      x \in { y \in (1 .. Len(face)) \X (1 .. Len(face)) : y[1] < y[2] } }

\* prepare_mesh()
PrepareMesh ==
  /\ mesh_pc = "read"
  /\ point_to_id' = PointToId(verts, 0, EmptyMap)
  /\ faces' = Faces(verts, point_to_id')
  /\ mesh_pc' = "prepared"
  /\ UNCHANGED << objectVars, searchVars, reconnectVars,
                  prepareVars, frontierVars, runVars, pluginVars,
                  verts >>

\* create_graph_from_mesh(): the nodes of G are the ends of its edges
CreateGraphFromMesh ==
  /\ mesh_pc = "prepared"
  /\ G' = [nodes |-> UNION UNION { Combinations(faces[k]) : k \in 1 .. Len(faces) },
           edges |-> UNION { Combinations(faces[k]) : k \in 1 .. Len(faces) }]
  /\ mesh_pc' = "graph"
  /\ UNCHANGED << reconnectVars,
                  normals, metric, minmax, path, path_distance, searchVars, prepareVars,
                  frontierVars, runVars, pluginVars, verts, point_to_id, faces >>

InitMesh ==
  /\ verts \in UNION { [1 .. (3 * n) -> Points] : n \in 1 .. MaxTriangles }
  /\ point_to_id = EmptyMap
  /\ faces = <<>>
  /\ mesh_pc = "read"
  /\ G = [nodes |-> {}, edges |-> {}]
  /\ normals = [v \in Nodes |-> 1]
  /\ metric = "SHORTEST"
  /\ minmax = EmptyMap
  /\ SearchUnused
  /\ stage = "none"
  /\ source_id = None
  /\ target_id = None
  /\ adjacency = EmptyMap
  /\ mesh_frontiers = "set"
  /\ raised = NotRaised
  /\ FrontierUnused
  /\ RunUnused
  /\ PluginUnused
  /\ ReconnectUnused

NextMesh == PrepareMesh \/ CreateGraphFromMesh

SpecMesh == InitMesh /\ [][NextMesh]_vars

\* the unordered pairs of distinct vertex ids that share a face
SharingAFace ==
  { e \in SUBSET Points :
      /\ Cardinality(e) = 2
      /\ \E k \in 1 .. Len(faces) : e \subseteq SeqToSet(faces[k]) }

\* C20: the graph create_graph_from_mesh builds has no self-loop, its edges
\* are exactly the pairs of distinct vertex ids sharing a face, and from a
\* single triangle it has three nodes and three edges.
C20_GraphIsSimpleFaceGraph ==
  mesh_pc = "graph"
  => (/\ \A e \in G.edges : Cardinality(e) = 2
      /\ G.edges = SharingAFace
      /\ Len(faces) = 1 => (Cardinality(G.nodes) = 3 /\ Cardinality(G.edges) = 3))

(***************************************************************************)
(* Properties of the while loop of _dijkstra_multisource.                  *)
(***************************************************************************)
\* no node appears twice among the finalized
FinalizedOnce == \A i, j \in 1 .. Len(popLog) : popLog[i][1] = popLog[j][1] => i = j

\* the distance of every finalized node is the least distance pushed for it
FinalizedAtSmallestPush ==
  \A v \in DOMAIN dist :
    /\ \E j \in 1 .. Len(pushLog) : pushLog[j][3] = v /\ pushLog[j][1] = dist[v]
    /\ \A j \in 1 .. Len(pushLog) : pushLog[j][3] = v => pushLog[j][1] >= dist[v]

\* C21: in every step of the search, the nodes finalized so far keep their
\* dist, path and predecessor list; a pop that finalizes no node (a stale
\* entry) leaves dist, seen, paths and pred as they are; and afterwards no
\* node is finalized twice and every finalized node has the least distance
\* ever pushed for it.
C21_FinalizedOnceAndFrozen ==
  [][pc = "loop"
     => /\ \A v \in DOMAIN dist :
             /\ v \in DOMAIN dist' /\ dist'[v] = dist[v]
             /\ paths'[v] = paths[v]
             /\ pred'[v] = pred[v]
        /\ (popLog' = popLog /\ fringe' # fringe)
           => (dist' = dist /\ seen' = seen /\ paths' = paths /\ pred' = pred)
        /\ FinalizedOnce'
        /\ FinalizedAtSmallestPush']_vars

\* C21 happens: a node pushed twice was finalized and its stale entry has
\* been popped and discarded
C21_Witness ==
  \E v \in DOMAIN dist :
    /\ \E i, j \in 1 .. Len(pushLog) : i # j /\ pushLog[i][3] = v /\ pushLog[j][3] = v
    /\ \A e \in fringe : e[3] # v
    /\ FinalizedOnce

(***************************************************************************)
(* The cutoff specification: the searches under SHORTEST, called with a    *)
(* cutoff below zero, of zero or above zero.                               *)
(***************************************************************************)
\* the cutoffs a caller passes
Cutoffs == { 0 - CutoffValue, 0, CutoffValue }

InitCutoff == Init /\ metric = "SHORTEST"

NextCutoff ==
  \/ \E srcs \in SourceSeqs, t \in Nodes \cup {None}, cut \in Cutoffs : Call(srcs, t, cut)
  \/ PopStale
  \/ PopTarget
  \/ PopExpand
  \/ Exhausted

SpecCutoff == InitCutoff /\ [][NextCutoff]_vars

\* C22: in a search with a cutoff, every distance in dist, the distance of
\* every entry pushed and the cost of the returned path are at most the
\* cutoff, whatever the cutoff.
C22_NothingBeyondCutoff ==
  pc # "idle"
  => /\ \A v \in DOMAIN dist : dist[v] <= cutoff
     /\ \A j \in 1 .. Len(pushLog) : pushLog[j][1] <= cutoff
     /\ result.kind = "pair" => result.cost <= cutoff

\* C23: once the target is in dist, it is the last node finalized, no
\* finalized node lies farther than it, the call has returned
\* (dist[t], paths[t]) and the object holds them as path_distance and path;
\* and the step that pops the target relaxes none of its edges.
C23_SearchStopsAtTarget ==
  [][(target' # None /\ target' \in DOMAIN dist')
     => /\ popLog'[Len(popLog')][1] = target'
        /\ \A v \in DOMAIN dist' : dist'[v] <= dist'[target']
        /\ pc' = "returned"
        /\ result' = Returned(dist'[target'], paths'[target'])
        /\ path' = paths'[target']
        /\ path_distance' = dist'[target']
        /\ target \notin DOMAIN dist
           => (pushLog' = pushLog /\ seen' = seen /\ paths' = paths /\ pred' = pred)]_vars

\* C23 happens: the target was popped while entries were left in the queue
\* and one of its neighbours had never been seen
C23_Witness ==
  /\ pc = "returned"
  /\ target # None
  /\ target \in DOMAIN dist
  /\ fringe # {}
  /\ \E u \in G.nodes : {target, u} \in G.edges /\ u \notin DOMAIN seen

(***************************************************************************)
(* reconnect_non_removable_nodes, as prepare_graph calls it, and the       *)
(* restriction to the component of the source that follows.                *)
(***************************************************************************)
\* max_distance of the call: self.border_threshold + 1.0, in tenths
max_distance10 == 10

\* unchecked_nodes of prepare_graph: the source, and the target when
\* "if target_id" holds, which it does not for None nor for the id 0
UncheckedNodes(source, t) ==
  IF t = None \/ t = 0 THEN << source >> ELSE << source, t >>

\* borderless_kdtree.query(self.centroids[n])[1]: the index, from 0, of the
\* node nearest to n among the nodes listed in dict; the first of the nearest
NearestIdx(dict, n) ==
  SetMin({ i \in 0 .. (Len(dict) - 1) :
             \A j \in 0 .. (Len(dict) - 1) :
               SqDistance(dict[i + 1], n) <= SqDistance(dict[j + 1], n) })

\* d <= max_distance for the distance d the query returns for n
WithinMaxDistance(dict, n) ==
  100 * SqDistance(dict[NearestIdx(dict, n) + 1], n) <= max_distance10 * max_distance10

\* G.add_node(n); G.add_edge(n, m)
AddNodeAndEdge(g, n, m) == [nodes |-> g.nodes \cup {n, m}, edges |-> g.edges \cup {{n, m}}]

RECURSIVE ReconnectUnchecked(_, _, _)
\* the loop over the unchecked nodes us: a node that G lacks is joined to
\* the node at the index of its nearest
ReconnectUnchecked(dict, g, us) ==
  IF us = <<>> THEN g
  ELSE IF Head(us) \in g.nodes THEN ReconnectUnchecked(dict, g, Tail(us))
  ELSE ReconnectUnchecked(dict,
                          AddNodeAndEdge(g, Head(us), dict[NearestIdx(dict, Head(us)) + 1]),
                          Tail(us))

RECURSIVE ReconnectChecked(_, _, _)
\* the loop over the checked nodes cs; st holds G and nearest_checked_nodes.
\* For a node that is too far, nearest_idx itself is added to the set
ReconnectChecked(dict, st, cs) ==
  IF cs = <<>> THEN st
  ELSE IF Head(cs) \in st.g.nodes
       THEN ReconnectChecked(dict, [st EXCEPT !.nearest = st.nearest \cup {Head(cs)}],
                             Tail(cs))
  ELSE IF WithinMaxDistance(dict, Head(cs))
       THEN ReconnectChecked(dict,
                             [g |-> AddNodeAndEdge(st.g, Head(cs),
                                                   dict[NearestIdx(dict, Head(cs)) + 1]),
                              nearest |-> st.nearest \cup {Head(cs)}],
                             Tail(cs))
  ELSE ReconnectChecked(dict,
                        [st EXCEPT !.nearest = st.nearest \cup {NearestIdx(dict, Head(cs))}],
                        Tail(cs))

\* reconnect_non_removable_nodes(G, checked_nodes, unchecked_nodes, max_distance)
reconnect_non_removable_nodes(g, checked, unchecked) ==
  ReconnectChecked(SortedSeq(g.nodes),
                   [g |-> ReconnectUnchecked(SortedSeq(g.nodes), g, unchecked),
                    nearest |-> {}],
                   SortedSeq(checked))

\* prepare_graph: the call of reconnect_non_removable_nodes
ReconnectNodes ==
  /\ stage = "reconnect"
  /\ borderless_g_dict' = SortedSeq(G.nodes)
  /\ G' = reconnect_non_removable_nodes(G, checked_nodes,
                                        UncheckedNodes(source_id, target_id)).g
  /\ nearest_checked_nodes' =
       reconnect_non_removable_nodes(G, checked_nodes,
                                     UncheckedNodes(source_id, target_id)).nearest
  /\ stage' = "reconnected"
  /\ UNCHANGED << normals, metric, minmax, path, path_distance, searchVars, source_id,
                  target_id, adjacency, mesh_frontiers, raised, frontierVars, runVars,
                  pluginVars, meshVars, checked_nodes >>

\* prepare_graph: the component of the source once more, and the frontiers
\* that are nodes of it
RestrictReconnected ==
  /\ stage = "reconnected"
  /\ G' = remove_non_connected_components(G, source_id)
  /\ filtered_reachable_f_ids' = nearest_checked_nodes \cap G'.nodes
  /\ stage' = "frontiers"
  /\ UNCHANGED << normals, metric, minmax, path, path_distance, searchVars, source_id,
                  target_id, adjacency, mesh_frontiers, raised, f_visit_ids,
                  f_centroids_ids, runVars, pluginVars, meshVars, reconnectVars >>

InitReconnect ==
  /\ G \in Graphs
  /\ source_id \in Nodes
  /\ target_id \in Nodes \cup {None}
  /\ checked_nodes \in SUBSET Nodes
  /\ borderless_g_dict = <<>>
  /\ nearest_checked_nodes = {}
  /\ normals = [v \in Nodes |-> 1]
  /\ metric = "SHORTEST"
  /\ minmax = EmptyMap
  /\ SearchUnused
  /\ stage = "reconnect"
  /\ adjacency = EmptyMap
  /\ mesh_frontiers = "list"
  /\ raised = NotRaised
  /\ FrontierUnused
  /\ RunUnused
  /\ PluginUnused
  /\ MeshUnused

NextReconnect == ReconnectNodes \/ RestrictReconnected

SpecReconnect == InitReconnect /\ [][NextReconnect]_vars

\* the checked anchors that are not in G when the loop over the checked
\* nodes meets them (neither nodes of G at the call nor unchecked nodes) and
\* lie farther than max_distance from their nearest node
FarAnchors ==
  { a \in checked_nodes :
      /\ a \notin SeqToSet(borderless_g_dict)
      /\ a \notin SeqToSet(UncheckedNodes(source_id, target_id))
      /\ ~WithinMaxDistance(borderless_g_dict, a) }

\* C24: when reconnect_non_removable_nodes has returned, every far checked
\* anchor is left out of G, the node id of its nearest surviving node is in
\* the frontier set returned, and every element of that frontier set is a
\* node of the returned G.
C24_FarAnchorReplacedByNearestNode ==
  stage = "reconnected"
  => /\ \A a \in FarAnchors :
          /\ a \notin G.nodes
          /\ borderless_g_dict[NearestIdx(borderless_g_dict, a) + 1] \in nearest_checked_nodes
     /\ nearest_checked_nodes \subseteq G.nodes

\* C25: in multi-process mode, when run reads return_dict every worker it
\* started has terminated, every worker has written its entry, and the keys
\* of return_dict are the metrics of the workers.
C25_WorkersWriteOwnEntryBeforeRead ==
  (is_multithread /\ run_pc \in { "collect", "ended" })
  => /\ Len(processes) = Len(graph_metrics_types)
     /\ \A i \in 1 .. Len(processes) :
          /\ processes[i] # "started"
          /\ processes[i] = "exited"
          /\ graph_metrics_types[i] \in DOMAIN return_dict
     /\ DOMAIN return_dict = SeqToSet(graph_metrics_types)

\* the counters of the entries pushed so far increase strictly
CountersIncrease ==
  \A i, j \in 1 .. Len(pushLog) : i < j => pushLog[i][2] < pushLog[j][2]

\* no two entries of the fringe agree on (distance, counter)
EntriesDistinct ==
  \A e, f \in fringe : (e[1] = f[1] /\ e[2] = f[2]) => e = f

\* C26: the counters of the pushed entries increase strictly, so no two
\* queue entries agree on (distance, counter); and every entry popped has
\* the least distance of the queue and, among the entries of that distance,
\* the least counter: the one pushed first.
C26_QueueTieBreakByInsertion ==
  [][/\ CountersIncrease'
     /\ EntriesDistinct'
     /\ pc = "loop"
        => \A e \in fringe \ fringe' : \A f \in fringe :
             f = e \/ e[1] < f[1] \/ (e[1] = f[1] /\ e[2] < f[2])]_vars

\* C26 happens: two sources were pushed at distance 0 and popped in the
\* order of their pushes
C26_Witness ==
  /\ Len(sources) = 2
  /\ Len(popLog) >= 2
  /\ popLog[1] = << sources[1], 0 >>
  /\ popLog[2] = << sources[2], 0 >>
  /\ pushLog[1][3] = sources[1]
  /\ pushLog[2][3] = sources[2]

\* the node before v on the path p of v, none when the path is v alone
NodeBefore(p) == IF Len(p) >= 2 THEN p[Len(p) - 1] ELSE None

\* C27: whenever a node v is expanded, the predecessor handed to the edge
\* weight (the first of pred[v], or none) is the node before v on paths[v],
\* and is none exactly when paths[v] is v alone.
C27_PredecessorIsNodeBeforeOnPath ==
  [][(pc = "loop" /\ Len(popLog') = Len(popLog) + 1 /\ pc' # "returned")
     => /\ PredNode(pred[popLog'[Len(popLog')][1]])
             = NodeBefore(paths[popLog'[Len(popLog')][1]])
        /\ PredNode(pred[popLog'[Len(popLog')][1]]) = None
             <=> paths[popLog'[Len(popLog')][1]] = << popLog'[Len(popLog')][1] >>]_vars

(***************************************************************************)
(* The search as it runs: the while loop of _dijkstra_multisource is one   *)
(* thread, which takes its next iteration as long as one is due.           *)
(***************************************************************************)
LoopStep == PopStale \/ PopTarget \/ PopExpand \/ Exhausted

\* weak fairness of the loop, WF_vars(LoopStep), written out: an iteration
\* is due exactly when pc = "loop" (one of the four steps is then defined,
\* and each changes fringe or pc), so ENABLED <<LoopStep>>_vars is
\* pc = "loop"
LoopFair == []<>(pc # "loop") \/ []<><<LoopStep>>_vars

SpecLoop == Spec /\ LoopFair

\* the pushes so far number at most the sources plus the sum of the degrees
PushesBounded == Len(pushLog) <= Len(sources) + 2 * Cardinality(G.edges)

\* C28: no node is expanded twice, the pushes number at most |S| plus the
\* sum of the node degrees, a call without target that has returned left
\* dist and paths with the same keys, and every search that has entered the
\* loop ends, with the target popped or with the queue empty.
C28_SearchTerminates ==
  /\ [](/\ FinalizedOnce
        /\ PushesBounded
        /\ (result.kind = "maps" => DOMAIN dist = DOMAIN paths))
  /\ (pc = "loop")
       ~> (/\ pc \in { "returned", "raised" }
           /\ fringe = {} \/ (target # None /\ target \in DOMAIN dist))

\* C28 happens: a search without target has returned after at least one
\* stale pop, every node it reached being finalized
C28_Witness ==
  /\ pc = "returned"
  /\ result.kind = "maps"
  /\ fringe = {}
  /\ Len(pushLog) > Len(popLog)
  /\ Len(popLog) >= 3

=============================================================================
